---- MODULE Spec2Model ----
(***************************************************************************)
(* Model of the SUI gas price monitor (src/main.py).                       *)
(*                                                                         *)
(* main() runs process_updates() forever, sleeping ten minutes between     *)
(* runs.  One run ("tick") of process_updates() makes up to three blocking *)
(* outbound calls: the epoch fetch (get_epoch_info), the price fetch       *)
(* (get_current_sui_price) and the submission command                      *)
(* (update_validator_gas_price).  The model has one action per blocking    *)
(* call: the action takes the collaborator's response as its input and     *)
(* runs the code up to the next blocking call or to the end of the tick.   *)
(*                                                                         *)
(* Numbers.  Prices are floats in the source.  The model keeps them as     *)
(* exact decimals: a raw quote is an integer count of 1/RawScale dollars,  *)
(* a price rounded by round(price, 4) an integer count of 1/PriceScale     *)
(* dollars, and the quotient reference_price / current_price an exact      *)
(* fraction.  Binary floating point error is therefore outside the model.  *)
(* None is modelled as -1 (epoch ids, prices and mist values are >= 0).    *)
(***************************************************************************)
EXTENDS Integers, Sequences, FiniteSets

VARIABLES
    pc,                  \* position of the main loop / the running tick
    LAST_UPDATED_EPOCH,  \* the global of main.py:30
    SUI_REF_TOKEN_PRICE, \* main.py:28, fixed at startup
    SUI_REF_GAS_PRICE,   \* main.py:29, fixed at startup
    current_epoch,       \* local of process_updates (main.py:126)
    remaining_ms,        \* local of process_updates (main.py:125)
    current_price,       \* local of process_updates (main.py:145), in 1/PriceScale $
    new_mist,            \* local of process_updates (main.py:149)
    calls,               \* history: outbound calls made by the running tick, in order
    epoch_result,        \* history: how this tick's epoch fetch ended
    price_result,        \* history: how this tick's price fetch ended
    submit_result,       \* history: how this tick's submission ended
    outcome,             \* history: how the tick ended
    last_at_start,       \* history: LAST_UPDATED_EPOCH when the tick started
    updated_epochs,      \* history: epoch ids LAST_UPDATED_EPOCH has been set to
    had_price,           \* history: an EARLIER tick fetched a positive price
    retry_due,           \* history: epoch whose latest submission failed, awaiting its retry tick
    retry_tick,          \* history: this tick is the retry tick of a failed submission
    prev_outcome,        \* history: how the previous tick ended
    prev_price,          \* converter runs: the price of the previous evaluation
    prev_mist,           \* converter runs: the result of the previous evaluation
    slept_s,             \* history: seconds slept since the last tick ended
    last_fetched_epoch,  \* history: the latest epoch id fetched; Decreased once
                         \* a fetched id was lower than the one before it
    interrupted          \* a KeyboardInterrupt has been delivered

vars == << pc, LAST_UPDATED_EPOCH, SUI_REF_TOKEN_PRICE, SUI_REF_GAS_PRICE,
           current_epoch, remaining_ms, current_price, new_mist,
           calls, epoch_result, price_result, submit_result, outcome,
           last_at_start, updated_epochs, had_price, retry_due, retry_tick, prev_outcome,
           prev_price, prev_mist, slept_s, last_fetched_epoch, interrupted >>

tickLocals == << current_epoch, remaining_ms, current_price, new_mist >>
config == << SUI_REF_TOKEN_PRICE, SUI_REF_GAS_PRICE >>
converterRuns == << prev_price, prev_mist >>
scheduling == << slept_s, last_fetched_epoch >>

----------------------------------------------------------------------------
(* Bounds and program constants *)

None == -1
Decreased == None - 1

MaxEpoch == 1                \* epoch ids returned by the RPC: 0..MaxEpoch

HOUR_MS == 60 * 60 * 1000    \* main.py:144
SLEEP_S == 10 * 60           \* main.py:195
MIST_CEILING == 1000         \* main.py:93
PriceScale == 10000          \* round(price, 4), main.py:44
RawScale == 10 * PriceScale   \* resolution of the raw quotes of the model

EpochIds == 0 .. MaxEpoch

MaxConvSteps == 40           \* converter runs: prices 0.1 $, 0.2 $, ... MaxConvSteps/10 $
ConvPrices == { k * (PriceScale \div 10) : k \in 1 .. MaxConvSteps }

\* Values of epoch_start_timestamp_ms + epoch_duration_ms - now (main.py:73-75)
\* the responses of the model produce: far from the boundary, one above,
\* exactly one hour, one below, and an epoch that has already ended.
EpochStartMs == HOUR_MS
EpochDurationMs == 24 * HOUR_MS
EpochEndMs == EpochStartMs + EpochDurationMs
NowValues == { EpochStartMs,
               EpochEndMs - HOUR_MS - 1,
               EpochEndMs - HOUR_MS,
               EpochEndMs - HOUR_MS + 1,
               EpochEndMs + 1000 }

\* Ways the epoch fetch fails (main.py:61-71); "timeout": no answer within
\* the ten seconds of timeout=10 (main.py:61), which requests raises as an error.
EpochErrors == { "network", "timeout", "http_status", "no_result", "malformed" }
\* Ways the price fetch fails (main.py:35-42); "timeout" as above (main.py:35).
PriceErrors == { "network", "timeout", "http_status", "error_code", "malformed" }

\* What subprocess.run (main.py:104-106) hands back: it raised before the
\* command ran ("raised"), or the command exited with a return code, having
\* written nothing, something to stdout or something to stderr.  Return code
\* 1 stands for every non-zero one.
NoSubmit == [ state |-> "none", returncode |-> None, output |-> "none" ]
SubmitResults ==
    { [ state |-> "raised", returncode |-> None, output |-> "none" ] }
    \cup { [ state |-> "exited", returncode |-> r[1], output |-> r[2] ] :
             r \in { << 0, "none" >>, << 0, "stderr" >>,
                     << 1, "none" >>, << 1, "stdout" >> } }

\* Raw quotes (in 1/RawScale $): -0.5, 0.00004, 0.4, 0.5, 1.0, 4.0.  The
\* code accepts whatever number the quote service returns (main.py:42), a
\* negative one included.  (No mist value of the model is -1, the model's None.)
RawPrices == { -50000, 4, 40000, 50000, 100000, 400000 }

\* Startup configuration (utils/args.py:66-77): (reference price in $, reference mist)
RefConfigs == { <<1, 1000>>, <<2, 500>>, <<1, 1>>, <<2, 1001>> }

----------------------------------------------------------------------------
(* Pure helpers *)

Min(a, b) == IF a <= b THEN a ELSE b

\* Python round(): nearest integer to n/d (d > 0), ties to the even one.
RoundHalfEven(n, d) ==
    LET q == n \div d
        r == n % d
    IN  IF 2 * r < d THEN q
        ELSE IF 2 * r > d THEN q + 1
        ELSE IF q % 2 = 0 THEN q ELSE q + 1

\* round(price, 4) of a raw quote: the result in 1/PriceScale $ (main.py:44).
round4(raw) == RoundHalfEven(raw, RawScale \div PriceScale)

\* price_ratio = reference_price / current_price as an exact fraction
\* (main.py:91); current_price is in 1/PriceScale $, reference_price in $.
price_ratio_inverted(current_price_, reference_price) ==
    [ num |-> current_price_, den |-> reference_price * PriceScale ]

\* The fraction is kept with a positive denominator.
price_ratio(current_price_, reference_price) ==
    IF current_price_ < 0
    THEN [ num |-> -(reference_price * PriceScale), den |-> -current_price_ ]
    ELSE [ num |-> reference_price * PriceScale, den |-> current_price_ ]

Max(a, b) == IF a >= b THEN a ELSE b

calculate_new_mist_max(current_price_, reference_price, reference_mist) ==
    LET ratio == price_ratio(current_price_, reference_price)
        calculated_mist == RoundHalfEven(reference_mist * ratio.num, ratio.den)
    IN  Max(calculated_mist, MIST_CEILING)

calculate_new_mist_noclamp(current_price_, reference_price, reference_mist) ==
    LET ratio == price_ratio(current_price_, reference_price)
    IN  RoundHalfEven(reference_mist * ratio.num, ratio.den)

\* calculate_new_mist (main.py:89-93), for current_price_ # 0.
calculate_new_mist(current_price_, reference_price, reference_mist) ==
    LET ratio == price_ratio(current_price_, reference_price)
        calculated_mist == RoundHalfEven(reference_mist * ratio.num, ratio.den)
    IN  Min(calculated_mist, MIST_CEILING)

\* "Skip if already updated this epoch" (main.py:139).
should_skip_never(epoch_id, last) == FALSE

should_skip(epoch_id, last) == last = epoch_id

\* "Update gas price if less than 1 hour remains" (main.py:144).
is_due_inclusive(remaining) == remaining <= HOUR_MS

is_due(remaining) == remaining < HOUR_MS

----------------------------------------------------------------------------
(* Initial state: module level of main.py has run, main() is at `while True`. *)

Init ==
    /\ pc = "loop"
    /\ LAST_UPDATED_EPOCH = None
    /\ \E c \in RefConfigs :
          /\ SUI_REF_TOKEN_PRICE = c[1]
          /\ SUI_REF_GAS_PRICE = c[2]
    /\ current_epoch = None
    /\ remaining_ms = 0
    /\ current_price = None
    /\ new_mist = None
    /\ calls = << >>
    /\ epoch_result = "none"
    /\ price_result = "none"
    /\ submit_result = NoSubmit
    /\ outcome = "NONE"
    /\ last_at_start = None
    /\ updated_epochs = {}
    /\ had_price = FALSE
    /\ retry_due = None
    /\ retry_tick = FALSE
    /\ prev_outcome = "NONE"
    /\ prev_price = None
    /\ prev_mist = None
    /\ slept_s = 0
    /\ last_fetched_epoch = None
    /\ interrupted = FALSE

----------------------------------------------------------------------------
(* The tick: process_updates() *)

history == << updated_epochs, had_price, retry_due, retry_tick, prev_outcome >>

\* `except Exception` of process_updates (main.py:175-176): the error is
\* logged, process_updates returns normally and main() goes on to its sleep.
CaughtPropagates ==
    /\ pc' = "exited"
    /\ outcome' = "ERROR"
    /\ UNCHANGED LAST_UPDATED_EPOCH

Caught ==
    /\ pc' = "sleep"
    /\ outcome' = "ERROR"
    /\ UNCHANGED LAST_UPDATED_EPOCH

\* main() calls process_updates() (main.py:188-190), which calls
\* get_epoch_info(), which posts the RPC request (main.py:53-61).
StartTick ==
    /\ pc = "loop"
    /\ pc' = "get_epoch"
    /\ calls' = << "epoch" >>
    /\ current_epoch' = None
    /\ remaining_ms' = 0
    /\ current_price' = None
    /\ new_mist' = None
    /\ epoch_result' = "none"
    /\ price_result' = "none"
    /\ submit_result' = NoSubmit
    /\ outcome' = "NONE"
    /\ last_at_start' = LAST_UPDATED_EPOCH
    /\ had_price' = (had_price \/ (price_result = "ok" /\ current_price > 0))
    /\ retry_tick' = FALSE
    /\ prev_outcome' = outcome
    /\ slept_s' = 0
    /\ UNCHANGED << LAST_UPDATED_EPOCH, config, updated_epochs, retry_due, converterRuns,
                    last_fetched_epoch, interrupted >>

\* The epoch fetch fails: requests raises, raise_for_status raises, "result"
\* is missing, or a field is missing or no integer (main.py:61-71).  The
\* error is logged and re-raised (main.py:85-87) and caught at main.py:175.
EpochFetchFailsThenPrices ==
    /\ pc = "get_epoch"
    /\ \E err \in EpochErrors : epoch_result' = err
    /\ pc' = "get_price"
    /\ calls' = Append(calls, "price")
    /\ UNCHANGED << LAST_UPDATED_EPOCH, outcome, tickLocals, config, price_result,
                    submit_result, last_at_start, history, converterRuns, scheduling, interrupted >>

EpochFetchFails ==
    /\ pc = "get_epoch"
    /\ \E err \in EpochErrors : epoch_result' = err
    /\ Caught
    /\ UNCHANGED << tickLocals, config, calls, price_result, submit_result,
                    last_at_start, history, converterRuns, scheduling, interrupted >>

\* The epoch fetch returns (main.py:64-83); process_updates goes on to the
\* skip test (main.py:139-141) and the window test (main.py:144), and on a
\* due epoch calls get_current_sui_price(), which sends the quote request
\* (main.py:145, 35).
EpochFetchReturns ==
    /\ pc = "get_epoch"
    /\ \E epoch \in EpochIds, now \in NowValues :
          LET epoch_end_timestamp == EpochStartMs + EpochDurationMs  \* main.py:74
              remaining == epoch_end_timestamp - now
              retried == (retry_due = epoch /\ remaining < HOUR_MS)
          IN  /\ current_epoch' = epoch
              /\ remaining_ms' = remaining
              /\ epoch_result' = "ok"
              /\ retry_tick' = retried
              /\ retry_due' = IF retried THEN None ELSE retry_due
              /\ last_fetched_epoch' =
                     IF last_fetched_epoch # Decreased /\ epoch >= last_fetched_epoch
                     THEN epoch ELSE Decreased
              /\ IF should_skip(epoch, LAST_UPDATED_EPOCH)
                 THEN /\ pc' = "sleep"
                      /\ outcome' = "SKIPPED"
                      /\ UNCHANGED calls
                 ELSE IF is_due(remaining)
                 THEN /\ pc' = "get_price"
                      /\ calls' = Append(calls, "price")
                      /\ UNCHANGED outcome
                 ELSE /\ pc' = "sleep"
                      /\ outcome' = "SKIPPED"
                      /\ UNCHANGED calls
    /\ UNCHANGED << LAST_UPDATED_EPOCH, current_price, new_mist, config, price_result,
                    submit_result, last_at_start, updated_epochs, had_price,
                    prev_outcome, converterRuns, slept_s, interrupted >>

\* The price fetch fails: requests raises, raise_for_status raises, the
\* error_code is not 0, or the price field is missing (main.py:35-42).  The
\* error is logged and re-raised (main.py:46-48) and caught at main.py:175.
PriceFetchFailsThenSubmits ==
    /\ pc = "get_price"
    /\ \E err \in PriceErrors : price_result' = err
    /\ current_price' = PriceScale
    /\ new_mist' = calculate_new_mist(PriceScale, SUI_REF_TOKEN_PRICE, SUI_REF_GAS_PRICE)
    /\ pc' = "submit"
    /\ calls' = Append(calls, "submit")
    /\ UNCHANGED << LAST_UPDATED_EPOCH, outcome, current_epoch, remaining_ms, config,
                    epoch_result, submit_result, last_at_start, history, converterRuns, scheduling, interrupted >>

PriceFetchFails ==
    /\ pc = "get_price"
    /\ \E err \in PriceErrors : price_result' = err
    /\ Caught
    /\ UNCHANGED << tickLocals, config, calls, epoch_result, submit_result,
                    last_at_start, history, converterRuns, scheduling, interrupted >>

\* The price fetch returns round(price, 4) (main.py:38-44); process_updates
\* computes the new mist value and the two percentages (main.py:149-158),
\* a division by zero being caught at main.py:175, and then calls
\* update_validator_gas_price(), which runs the command (main.py:169, 98-106).
PriceFetchReturns ==
    /\ pc = "get_price"
    /\ \E raw \in RawPrices :
          LET price == round4(raw)
          IN  /\ current_price' = price
              /\ price_result' = "ok"
              /\ IF price = 0 \/ SUI_REF_TOKEN_PRICE = 0 \/ SUI_REF_GAS_PRICE = 0
                 THEN /\ Caught
                      /\ new_mist' = IF price = 0 THEN None
                                     ELSE calculate_new_mist(price, SUI_REF_TOKEN_PRICE,
                                                             SUI_REF_GAS_PRICE)
                      /\ UNCHANGED calls
                 ELSE /\ new_mist' = calculate_new_mist(price, SUI_REF_TOKEN_PRICE,
                                                        SUI_REF_GAS_PRICE)
                      /\ pc' = "submit"
                      /\ calls' = Append(calls, "submit")
                      /\ UNCHANGED << LAST_UPDATED_EPOCH, outcome >>
    /\ UNCHANGED << current_epoch, remaining_ms, config, epoch_result, submit_result,
                    last_at_start, history, converterRuns, scheduling, interrupted >>

\* update_validator_gas_price (main.py:95-117): returncode == 0 whatever was
\* written (main.py:108-113); False when subprocess.run raised (main.py:115-117).
update_validator_gas_price_quiet_only(result) ==
    result.state = "exited" /\ result.returncode = 0 /\ result.output = "none"

update_validator_gas_price(result) ==
    result.state = "exited" /\ result.returncode = 0

\* The command has ended: LAST_UPDATED_EPOCH is set on success only
\* (main.py:169-173).
SubmitReturnsMarksAlways ==
    /\ pc = "submit"
    /\ \E result \in SubmitResults :
          /\ submit_result' = result
          /\ LAST_UPDATED_EPOCH' = current_epoch
          /\ updated_epochs' = updated_epochs \cup { current_epoch }
          /\ IF update_validator_gas_price(result)
             THEN /\ outcome' = "CONFIRMED"
                  /\ UNCHANGED retry_due
             ELSE /\ outcome' = "FAILED"
                  /\ retry_due' = current_epoch
    /\ pc' = "sleep"
    /\ UNCHANGED << tickLocals, config, calls, epoch_result, price_result,
                    last_at_start, had_price, retry_tick, prev_outcome, converterRuns,
                    scheduling, interrupted >>

SubmitReturnsRetries ==
    /\ pc = "submit"
    /\ \E result \in SubmitResults :
          /\ submit_result' = result
          /\ IF update_validator_gas_price(result)
             THEN /\ LAST_UPDATED_EPOCH' = current_epoch
                  /\ updated_epochs' = updated_epochs \cup { current_epoch }
                  /\ outcome' = "CONFIRMED"
                  /\ pc' = "sleep"
                  /\ UNCHANGED << retry_due, calls >>
             ELSE /\ calls' = Append(calls, "submit")
                  /\ pc' = "submit"
                  /\ UNCHANGED << LAST_UPDATED_EPOCH, updated_epochs, outcome, retry_due >>
    /\ UNCHANGED << tickLocals, config, epoch_result, price_result,
                    last_at_start, had_price, retry_tick, prev_outcome, converterRuns,
                    scheduling, interrupted >>

SubmitReturns ==
    /\ pc = "submit"
    /\ \E result \in SubmitResults :
          /\ submit_result' = result
          /\ IF update_validator_gas_price(result)
             THEN /\ LAST_UPDATED_EPOCH' = current_epoch
                  /\ updated_epochs' = updated_epochs \cup { current_epoch }
                  /\ outcome' = "CONFIRMED"
                  /\ UNCHANGED retry_due
             ELSE /\ outcome' = "FAILED"
                  /\ retry_due' = current_epoch
                  /\ UNCHANGED << LAST_UPDATED_EPOCH, updated_epochs >>
    /\ pc' = "sleep"
    /\ UNCHANGED << tickLocals, config, calls, epoch_result, price_result,
                    last_at_start, had_price, retry_tick, prev_outcome, converterRuns,
                    scheduling, interrupted >>

\* The command never ends: subprocess.run is called without a timeout
\* (main.py:104-106), so process_updates stays blocked in it.
SubmitNeverReturns ==
    /\ pc = "submit"
    /\ pc' = "hung"
    /\ UNCHANGED << LAST_UPDATED_EPOCH, config, tickLocals, calls, epoch_result,
                    price_result, submit_result, outcome, last_at_start, history,
                    converterRuns, scheduling, interrupted >>

----------------------------------------------------------------------------
(* The scheduler: main() *)

\* time.sleep(10 * 60) returns and the loop starts over (main.py:194-196, 188).
SleepsOneMinute ==
    /\ pc = "sleep"
    /\ pc' = "loop"
    /\ slept_s' = slept_s + 60
    /\ UNCHANGED << LAST_UPDATED_EPOCH, config, tickLocals, calls, epoch_result,
                    price_result, submit_result, outcome, last_at_start, history,
                    converterRuns, last_fetched_epoch, interrupted >>

Sleep ==
    /\ pc = "sleep"
    /\ pc' = "loop"
    /\ slept_s' = slept_s + SLEEP_S
    /\ UNCHANGED << LAST_UPDATED_EPOCH, config, tickLocals, calls, epoch_result,
                    price_result, submit_result, outcome, last_at_start, history,
                    converterRuns, last_fetched_epoch, interrupted >>

\* KeyboardInterrupt: no `except Exception` catches it (main.py:46, 85, 115,
\* 175, 191); main() logs and calls sys.exit(0) (main.py:198-200).
Interrupt ==
    /\ pc # "exited"
    /\ pc' = "exited"
    /\ interrupted' = TRUE
    /\ UNCHANGED << LAST_UPDATED_EPOCH, config, tickLocals, calls, epoch_result,
                    price_result, submit_result, outcome, last_at_start, history,
                    converterRuns, scheduling >>

Next ==
    \/ StartTick
    \/ EpochFetchFails
    \/ EpochFetchReturns
    \/ PriceFetchFails
    \/ PriceFetchReturns
    \/ SubmitReturns
    \/ SubmitNeverReturns
    \/ Sleep
    \/ Interrupt

Spec == Init /\ [][Next]_vars

\* time.sleep returns and the loop body is re-entered: the interpreter keeps
\* running the single thread of main().
FairSpec == Spec /\ WF_vars(Sleep) /\ WF_vars(StartTick)

----------------------------------------------------------------------------
(* Runs of the converter alone *)

\* calculate_new_mist (main.py:89-93) applied to one positive price after
\* another under the startup configuration, as process_updates applies it
\* (main.py:149-151); the previous price and result are kept for comparison.
Convert ==
    /\ pc = "loop"
    /\ \E price \in ConvPrices :
          /\ current_price' = price
          /\ new_mist' = calculate_new_mist(price, SUI_REF_TOKEN_PRICE, SUI_REF_GAS_PRICE)
    /\ prev_price' = current_price
    /\ prev_mist' = new_mist
    /\ UNCHANGED << pc, LAST_UPDATED_EPOCH, config, current_epoch, remaining_ms, calls,
                    epoch_result, price_result, submit_result, outcome, last_at_start,
                    history, scheduling, interrupted >>

ConverterSpec == Init /\ [][Convert]_vars

----------------------------------------------------------------------------
(* Vocabulary of the properties *)

TickEnded == outcome # "NONE"
PriceFetched == Len(calls) >= 2 /\ calls[2] = "price"
SubmissionInvoked == Len(calls) >= 3 /\ calls[3] = "submit"
SubmitSucceeded == submit_result.state = "exited" /\ submit_result.returncode = 0
SubmitFailed == submit_result.state # "none" /\ ~SubmitSucceeded
Abs(x) == IF x < 0 THEN -x ELSE x

\* m is the integer nearest to n/d, the even one of the two on a tie.
IsNearestTiesEven(m, n, d) ==
    /\ 2 * Abs(m * d - n) <= d
    /\ (2 * Abs(m * d - n) = d => m % 2 = 0)

\* m = min(round(n/d), 1000)
IsClampedRound(m, n, d) ==
    /\ m <= 1000
    /\ (m < 1000 => IsNearestTiesEven(m, n, d))
    /\ (m = 1000 => 2 * n >= 1999 * d)

----------------------------------------------------------------------------
(* C1 *)

\* C1: at-most-once per epoch.  Once a tick has set LAST_UPDATED_EPOCH to an
\* epoch id E, no later tick has the submission command running (pc = "submit")
\* while the epoch id it fetched is E.
C1_AtMostOncePerEpoch ==
    pc = "submit" => current_epoch \notin updated_epochs

----------------------------------------------------------------------------
(* C2 *)

\* C2: monotonic epoch tracking.  Every change of LAST_UPDATED_EPOCH is from
\* unset to an epoch id or from an epoch id to a strictly greater one.
C2_MonotonicEpoch ==
    [][ LAST_UPDATED_EPOCH' # LAST_UPDATED_EPOCH
          => (LAST_UPDATED_EPOCH' # None /\ LAST_UPDATED_EPOCH' > LAST_UPDATED_EPOCH) ]_vars

----------------------------------------------------------------------------
(* C3 *)

\* C3: idempotent skip.  A tick whose epoch fetch returned the epoch id that
\* LAST_UPDATED_EPOCH held ends SKIPPED: its only outbound call is the epoch
\* fetch and LAST_UPDATED_EPOCH is unchanged, whatever the remaining time.
C3_IdempotentSkip ==
    (epoch_result = "ok" /\ current_epoch = last_at_start)
        => /\ outcome = "SKIPPED"
           /\ calls = << "epoch" >>
           /\ price_result = "none"
           /\ submit_result = NoSubmit
           /\ LAST_UPDATED_EPOCH = last_at_start

\* A tick of an already handled epoch was skipped inside the update window,
\* right after a tick that was skipped as well.
C3_Witness ==
    /\ epoch_result = "ok"
    /\ current_epoch = last_at_start
    /\ remaining_ms < HOUR_MS
    /\ outcome = "SKIPPED"
    /\ prev_outcome = "SKIPPED"
    /\ pc = "sleep"

----------------------------------------------------------------------------
(* C4 *)

\* C4: retry after a failed submission.  A failed submission leaves
\* LAST_UPDATED_EPOCH alone, and the next tick that fetches the same epoch id
\* with less than one hour remaining invokes the submission command again;
\* LAST_UPDATED_EPOCH changes only in a tick whose submission succeeded.
C4_RetryAfterFailure ==
    /\ (SubmitFailed => LAST_UPDATED_EPOCH = last_at_start)
    /\ (retry_tick /\ TickEnded => SubmissionInvoked)
    /\ (LAST_UPDATED_EPOCH # last_at_start => SubmitSucceeded)

----------------------------------------------------------------------------
(* C5 *)

\* C5: a failing epoch fetch is harmless.  In a tick whose epoch fetch failed
\* the epoch fetch is the only outbound call, LAST_UPDATED_EPOCH is unchanged
\* and main() is at its sleep or back at the loop head (unless interrupted).
C5_EpochFailureHarmless ==
    epoch_result \in EpochErrors
        => /\ calls = << "epoch" >>
           /\ price_result = "none"
           /\ submit_result = NoSubmit
           /\ LAST_UPDATED_EPOCH = last_at_start
           /\ outcome = "ERROR"
           /\ (pc \in { "sleep", "loop" } \/ interrupted)

\* The epoch fetch failed in a tick that followed a tick that ended in an
\* error too, and the loop has come round again.
C5_Witness ==
    /\ epoch_result \in EpochErrors
    /\ prev_outcome = "ERROR"
    /\ calls = << "epoch" >>
    /\ pc = "loop"

----------------------------------------------------------------------------
(* C6 *)

\* C6: failure isolation.  The loop ends only by an external interrupt, and
\* after every ended tick, whatever its outcome, a next tick starts unless an
\* interrupt arrives.
C6_FailureIsolation ==
    /\ [](pc = "exited" => interrupted)
    /\ [](TickEnded => <>((pc = "get_epoch" /\ ~TickEnded) \/ interrupted))

\* A tick has started after a tick that ended in a caught error.
C6_Witness ==
    /\ pc = "get_epoch"
    /\ prev_outcome = "ERROR"
    /\ ~interrupted

----------------------------------------------------------------------------
(* C7 *)

\* C7: fallback price.  In a tick whose price fetch failed although an
\* earlier tick had fetched a price, the engine goes on to the submission.
C7_FallbackPrice ==
    (price_result \in PriceErrors /\ had_price /\ TickEnded) => SubmissionInvoked

----------------------------------------------------------------------------
(* C8 *)

\* C8: no price, no submission.  In a tick whose price fetch failed with no
\* successful price fetch before it, the tick ends in failure, the submission
\* command is not invoked and LAST_UPDATED_EPOCH is unchanged.
C8_NoPriceNoSubmission ==
    (price_result \in PriceErrors /\ ~had_price)
        => /\ outcome = "ERROR"
           /\ calls = << "epoch", "price" >>
           /\ submit_result = NoSubmit
           /\ new_mist = None
           /\ LAST_UPDATED_EPOCH = last_at_start

\* The first price fetch of the process failed in a due tick.
C8_Witness ==
    /\ price_result \in PriceErrors
    /\ ~had_price
    /\ remaining_ms < HOUR_MS
    /\ pc = "sleep"

----------------------------------------------------------------------------
(* C9 *)

\* C9: update window gate.  After a successful epoch fetch the tick fetches a
\* price iff the epoch id differs from LAST_UPDATED_EPOCH and fewer than
\* 3,600,000 ms remain; exactly 3,600,000 is not due, a negative value is.
C9_UpdateWindowGate ==
    epoch_result = "ok"
        => (PriceFetched <=> (last_at_start # current_epoch /\ remaining_ms < 3600000))

\* Exactly one hour remains for an epoch not yet handled: the tick was skipped.
C9_Witness ==
    /\ epoch_result = "ok"
    /\ remaining_ms = 3600000
    /\ last_at_start # current_epoch
    /\ ~PriceFetched
    /\ outcome = "SKIPPED"

----------------------------------------------------------------------------
(* C10 *)

\* C10: numeric derivation.  The mist value computed from a positive price is
\* min(round(reference_fee * reference_price / current_price), 1000); at
\* the reference price it is min(reference_fee, 1000); reference (1, 1000)
\* at 0.50 gives 1000 and reference (2, 500) at 4.00 gives 250.
C10_NumericDerivation ==
    /\ (new_mist # None /\ current_price > 0
          => IsClampedRound(new_mist,
                            SUI_REF_GAS_PRICE * SUI_REF_TOKEN_PRICE * PriceScale,
                            current_price))
    /\ (new_mist # None /\ current_price = SUI_REF_TOKEN_PRICE * PriceScale
          => new_mist = IF SUI_REF_GAS_PRICE < 1000 THEN SUI_REF_GAS_PRICE ELSE 1000)
    /\ (new_mist # None /\ SUI_REF_TOKEN_PRICE = 1 /\ SUI_REF_GAS_PRICE = 1000
            /\ current_price = 5000
          => new_mist = 1000)
    /\ (new_mist # None /\ SUI_REF_TOKEN_PRICE = 2 /\ SUI_REF_GAS_PRICE = 500
            /\ current_price = 40000
          => new_mist = 250)

\* A tie was rounded to the even neighbour: reference (2, 1001) at 4.00 is
\* 500.5 and gave 500.
C10_Witness ==
    /\ SUI_REF_TOKEN_PRICE = 2
    /\ SUI_REF_GAS_PRICE = 1001
    /\ current_price = 40000
    /\ new_mist = 500
    /\ pc = "submit"

----------------------------------------------------------------------------
(* C11 *)

\* C11: fee range.  The mist value computed from a positive price and a
\* positive reference, and so the value handed to the submission command, is
\* an integer from 0 to 1000.
C11_FeeRange ==
    (price_result = "ok" /\ current_price > 0
        /\ SUI_REF_TOKEN_PRICE > 0 /\ SUI_REF_GAS_PRICE > 0)
        => /\ new_mist \in 0 .. 1000
           /\ SubmissionInvoked

\* The lowest fee: reference (1, 1) at a price of 4.00 rounds to 0,
\* and 0 is what the submission command was run with.
C11_Witness ==
    /\ SubmissionInvoked
    /\ current_price > 0
    /\ new_mist = 0
    /\ submit_result # NoSubmit

----------------------------------------------------------------------------
(* C12 *)

\* C12: invalid price input.  A fetched price that is zero or negative after
\* rounding makes the computation fail: the tick has no mist value and the
\* submission command is not invoked.
C12_InvalidPriceRejected ==
    (price_result = "ok" /\ current_price <= 0)
        => /\ new_mist = None
           /\ ~SubmissionInvoked
           /\ outcome = "ERROR"

----------------------------------------------------------------------------
(* C13 *)

\* C13: monotonicity of the converter.  Under a fixed positive reference, of
\* two positive prices the higher never gets the higher mist value.
C13_Monotone ==
    (prev_price > 0 /\ current_price > 0 /\ prev_price <= current_price)
        => prev_mist >= new_mist

\* A higher price got a strictly lower mist value below the ceiling, after a
\* lower price that was clamped to the ceiling.
C13_Witness ==
    /\ prev_price > 0
    /\ prev_price < current_price
    /\ prev_mist = 1000
    /\ new_mist < 1000
    /\ new_mist > 0

----------------------------------------------------------------------------
(* C14 *)

\* The steps the program takes by itself, once the collaborator it waits for
\* has answered or the sleep is over.
Proceeds ==
    \/ StartTick
    \/ EpochFetchFails
    \/ EpochFetchReturns
    \/ PriceFetchFails
    \/ PriceFetchReturns
    \/ SubmitReturns
    \/ Sleep

\* C14: every tick terminates.  Each outbound call returns or times out, so
\* wherever the running program is, it can take its next step without an
\* interrupt from outside: no tick is stuck in a call.
C14_EveryTickTerminates ==
    pc # "exited" => ENABLED Proceeds

----------------------------------------------------------------------------
(* C15 *)

\* C15: single-writer frame condition.  LAST_UPDATED_EPOCH changes only in
\* the step that ends a tick whose submission succeeded, and then to the
\* epoch id that tick fetched; every other tick leaves it as it was.
C15_SingleWriterFrame ==
    /\ [](LAST_UPDATED_EPOCH # last_at_start
            => (outcome = "CONFIRMED" /\ SubmitSucceeded
                   /\ LAST_UPDATED_EPOCH = current_epoch))
    /\ [](outcome = "CONFIRMED" => LAST_UPDATED_EPOCH = current_epoch)
    /\ [][ LAST_UPDATED_EPOCH' # LAST_UPDATED_EPOCH
             => (pc = "submit" /\ pc' = "sleep" /\ outcome' = "CONFIRMED"
                    /\ LAST_UPDATED_EPOCH' = current_epoch) ]_vars

\* A failed submission for a new epoch has left the older epoch id in place.
C15_Witness ==
    /\ SubmitFailed
    /\ outcome = "FAILED"
    /\ last_at_start # None
    /\ current_epoch # last_at_start
    /\ LAST_UPDATED_EPOCH = last_at_start
    /\ pc = "sleep"

----------------------------------------------------------------------------
(* C16 *)

\* C16: executor result.  The submission counts as a success iff the command
\* ran and exited with status 0: output on stderr does not make it a
\* failure, and a non-zero status or a command that could not be run ends
\* the tick as FAILED (a value, not a propagated error).
C16_ExecutorResult ==
    submit_result # NoSubmit
        => /\ (outcome = "CONFIRMED"
                  <=> (submit_result.state = "exited" /\ submit_result.returncode = 0))
           /\ outcome \in { "CONFIRMED", "FAILED" }
           /\ (pc \in { "sleep", "loop" } \/ interrupted)

\* The command exited with status 0 and wrote to stderr: the tick is CONFIRMED.
C16_Witness ==
    /\ submit_result.state = "exited"
    /\ submit_result.returncode = 0
    /\ submit_result.output = "stderr"
    /\ outcome = "CONFIRMED"

----------------------------------------------------------------------------
(* C17 *)

\* C17: no retry inside a tick.  The calls of a tick are the epoch fetch,
\* then at most one price fetch, then at most one submission, and the
\* submission follows a successful epoch fetch and price fetch of that tick.
C17_NoRetryInsideTick ==
    /\ calls \in { << >>, << "epoch" >>, << "epoch", "price" >>,
                   << "epoch", "price", "submit" >> }
    /\ (SubmissionInvoked => (epoch_result = "ok" /\ price_result = "ok"))
    /\ (SubmitFailed => (outcome = "FAILED" /\ pc # "submit"))

\* A submission failed, the tick ended after that one call, and the tick
\* before it had ended with a failed submission too.
C17_Witness ==
    /\ calls = << "epoch", "price", "submit" >>
    /\ SubmitFailed
    /\ prev_outcome = "FAILED"
    /\ pc = "sleep"

----------------------------------------------------------------------------
(* C18 *)

\* C18: tick scheduling order.  The first tick starts with no sleep before
\* it; every later tick starts from the loop head after the previous tick has
\* ended and exactly one sleep of 600 seconds has passed since; a sleep
\* begins only when the tick has ended, so ticks never overlap.
C18_SchedulingOrder ==
    /\ [][ (pc' = "get_epoch" /\ pc # "get_epoch")
             => /\ pc = "loop"
                /\ IF calls = << >>
                   THEN slept_s = 0
                   ELSE TickEnded /\ slept_s = 600 ]_vars
    /\ [](pc = "sleep" => (TickEnded /\ slept_s = 0))
    /\ [](pc \in { "get_epoch", "get_price", "submit", "hung" }
            => (~TickEnded /\ slept_s = 0))

\* One sleep has passed after a confirmed tick and the loop is about to
\* start the next tick.
C18_Witness ==
    /\ pc = "loop"
    /\ outcome = "CONFIRMED"
    /\ slept_s = 600
    /\ ~interrupted

----------------------------------------------------------------------------
(* C19 *)

\* C19: clean cancellation.  After an interrupt the loop has exited, and a
\* submission that was in flight when it arrived has run to its end.
C19_CleanCancellation ==
    interrupted
        => /\ pc = "exited"
           /\ (SubmissionInvoked => submit_result # NoSubmit)

----------------------------------------------------------------------------
(* C20 *)

\* C20: as long as the fetched epoch ids have never decreased, a successful
\* submission is never made for an epoch id that an earlier successful
\* submission was made for.
C20_OneSuccessPerEpoch ==
    [][ (pc = "submit" /\ outcome' = "CONFIRMED" /\ last_fetched_epoch # Decreased)
          => current_epoch \notin updated_epochs ]_vars

\* Never-decreasing epoch ids: two epochs were each updated once, a tick then
\* failed, and the tick after it found the epoch already updated and skipped.
C20_Witness ==
    /\ last_fetched_epoch = current_epoch
    /\ current_epoch \in updated_epochs
    /\ Cardinality(updated_epochs) = 2
    /\ prev_outcome = "ERROR"
    /\ outcome = "SKIPPED"

====
